---- MODULE Spec2Model ----
(***************************************************************************)
(* Model of the portfolio backtester of src/Codes/Portfolio.py as driven    *)
(* by src/main.py: loading the price panel and the weight schedule,         *)
(* load_fee_rates, slice (the weight alignment) and generate_nav (the       *)
(* per-date NAV state machine with the fee-aware solve).                    *)
(*                                                                         *)
(* Numbers: Python floats are modelled by exact rationals <<n, d>> in       *)
(* lowest terms with d > 0; d = 0 encodes the non-finite floats             *)
(* (<<1,0>> = inf, <<-1,0>> = -inf, <<0,0>> = nan).  Rounding is not        *)
(* modelled: equalities below are equalities of real numbers.               *)
(*                                                                         *)
(* Frames: a pandas DataFrame is a record [columns |-> set of asset names,  *)
(* recs |-> sequence of [date, row]] in index order, a row being a function *)
(* from the columns to numbers.  The frames read or handed in have no       *)
(* repeated date; the frames handed in are in ascending date order.         *)
(***************************************************************************)
EXTENDS Integers, Sequences, FiniteSets, TLC

\* Calendar days are 1..MaxDate.
MaxDate == 4
Dates == 1 .. MaxDate

\* The NAV simulation runs over the dates 1..MaxNavDate.
MaxNavDate == 3

\* slice is called at most MaxSliceCalls times in a run.
MaxSliceCalls == 2

\* Python's None as a date bound (pd.to_datetime(None) is None).
None == 0

(***************************************************************************)
(* Float arithmetic, as exact rationals with IEEE non-finite values.       *)
(***************************************************************************)
Abs(x) == IF x < 0 THEN -x ELSE x

Sgn(x) == IF x < 0 THEN -1 ELSE IF x = 0 THEN 0 ELSE 1

RECURSIVE Gcd(_, _)
Gcd(a, b) == IF b = 0 THEN a ELSE Gcd(b, a % b)

\* The rational n/d in lowest terms (d # 0).
Rat(n, d) ==
  LET g == Gcd(Abs(n), Abs(d))
  IN  << Sgn(d) * (n \div g), Abs(d) \div g >>

Zero == <<0, 1>>
One == <<1, 1>>
NaN == <<0, 0>>

IsFinite(x) == x[2] # 0
IsNaN(x) == x = NaN

RNeg(x) == << -x[1], x[2] >>

RAbs(x) == << Abs(x[1]), x[2] >>

RAdd(x, y) ==
  IF IsNaN(x) \/ IsNaN(y) THEN NaN
  ELSE IF ~IsFinite(x) /\ ~IsFinite(y) THEN (IF x = y THEN x ELSE NaN)
  ELSE IF ~IsFinite(x) THEN x
  ELSE IF ~IsFinite(y) THEN y
  ELSE LET g == Gcd(x[2], y[2])
       IN  Rat(x[1] * (y[2] \div g) + y[1] * (x[2] \div g), (x[2] \div g) * y[2])

RSub(x, y) == RAdd(x, RNeg(y))

RMul(x, y) ==
  IF IsNaN(x) \/ IsNaN(y) THEN NaN
  ELSE IF ~IsFinite(x) \/ ~IsFinite(y)
       THEN (IF x[1] = 0 \/ y[1] = 0 THEN NaN ELSE << Sgn(x[1]) * Sgn(y[1]), 0 >>)
  ELSE LET g1 == Gcd(Abs(x[1]), y[2])
           g2 == Gcd(Abs(y[1]), x[2])
       IN  IF x[1] = 0 \/ y[1] = 0 THEN Zero
           ELSE << (x[1] \div g1) * (y[1] \div g2), (x[2] \div g2) * (y[2] \div g1) >>

\* numpy float division: x / 0 is +-inf, 0 / 0 is nan, x / inf is 0.
RDiv(x, y) ==
  IF IsNaN(x) \/ IsNaN(y) THEN NaN
  ELSE IF ~IsFinite(y) THEN (IF IsFinite(x) THEN Zero ELSE NaN)
  ELSE IF y[1] = 0 THEN << Sgn(x[1]), 0 >>
  ELSE RMul(x, << Sgn(y[1]) * y[2], Abs(y[1]) >>)

\* x < y on floats; every comparison with nan is false.
RLess(x, y) ==
  IF IsNaN(x) \/ IsNaN(y) THEN FALSE
  ELSE IF ~IsFinite(x) \/ ~IsFinite(y)
       THEN (IF ~IsFinite(x) /\ ~IsFinite(y) THEN x[1] < y[1]
             ELSE IF ~IsFinite(x) THEN x[1] < 0 ELSE y[1] > 0)
  ELSE LET g == Gcd(x[2], y[2])
       IN  x[1] * (y[2] \div g) < y[1] * (x[2] \div g)

RLeq(x, y) == ~IsNaN(x) /\ ~IsNaN(y) /\ ~RLess(y, x)

\* Python's == on floats: nan is not equal to itself.
REq(x, y) == ~IsNaN(x) /\ x = y

(***************************************************************************)
(* Frames.                                                                 *)
(***************************************************************************)
Frame(cols, recs) == [columns |-> cols, recs |-> recs]

Rec(d, r) == [date |-> d, row |-> r]

\* df.index as a sequence, and as a set.
IndexSeq(df) == [i \in 1 .. Len(df.recs) |-> df.recs[i].date]

Index(df) == { df.recs[i].date : i \in 1 .. Len(df.recs) }

\* df.loc[d] for a date of the index.
RowAt(df, d) == df.recs[CHOOSE i \in 1 .. Len(df.recs) : df.recs[i].date = d].row

Min(S) == CHOOSE x \in S : \A y \in S : x <= y

Max(S) == CHOOSE x \in S : \A y \in S : y <= x

\* The numbers of S in ascending order.
RECURSIVE Ascending(_)
Ascending(S) == IF S = {} THEN <<>> ELSE << Min(S) >> \o Ascending(S \ {Min(S)})

\* rec inserted into the ascending sequence recs, after the records of its date.
RECURSIVE InsertSorted(_, _)
InsertSorted(recs, rec) ==
  IF recs = <<>> THEN << rec >>
  ELSE IF rec.date < Head(recs).date THEN << rec >> \o recs
  ELSE << Head(recs) >> \o InsertSorted(Tail(recs), rec)

RECURSIVE SortRecs(_, _)
SortRecs(recs, acc) ==
  IF recs = <<>> THEN acc ELSE SortRecs(Tail(recs), InsertSorted(acc, Head(recs)))

\* df.sort_index(ascending=True, inplace=True)
SortIndex(df) == Frame(df.columns, SortRecs(df.recs, <<>>))

InBounds(d, lo, hi) == (lo = None \/ d >= lo) /\ (hi = None \/ d <= hi)

\* df.loc[lo:hi] on an ascending index, both ends inclusive, None = open.
LocSlice(df, lo, hi) ==
  LET keep(rec) == InBounds(rec.date, lo, hi)
  IN  Frame(df.columns, SelectSeq(df.recs, keep))

\* Faulty variant of LocSet: a date that is present keeps its row.
LocSetKeepFirst(recs, d, row) ==
  IF \E i \in 1 .. Len(recs) : recs[i].date = d THEN recs
  ELSE Append(recs, Rec(d, row))

\* Faulty variant of LocSet: the row is appended even when its date is present.
LocSetAppend(recs, d, row) == Append(recs, Rec(d, row))

\* df.loc[d] = row: the row of d replaced in place, or appended.
LocSet(recs, d, row) ==
  IF \E i \in 1 .. Len(recs) : recs[i].date = d
  THEN [i \in 1 .. Len(recs) |-> IF recs[i].date = d THEN Rec(d, row) ELSE recs[i]]
  ELSE Append(recs, Rec(d, row))

\* Faulty variant of NearestClosingDate: the following date, .loc[date:].iloc[0].
NearestClosingDateAfter(D, date) == Min({ d \in D : d >= date })

\* pd.Series(index, index=index).loc[:date].iloc[-1]
NearestClosingDate(D, date) == Max({ d \in D : d <= date })

\* Python's sum(...) of a Series: the values of f over the set S added up.
RECURSIVE RSum(_, _)
RSum(S, f) ==
  IF S = {} THEN Zero
  ELSE LET a == CHOOSE b \in S : TRUE
       IN  RAdd(f[a], RSum(S \ {a}, f))

(***************************************************************************)
(* State.                                                                  *)
(***************************************************************************)
VARIABLES
  pc,              \* position of main.py in its call sequence
  err,             \* the exception that ended the run, "none" while it runs
  sheets,          \* the workbook at input_path: <<[data, weight]>>, <<>> if none
  data,            \* Portfolio.data, the price panel
  weight,          \* Portfolio.weight, the weight schedule
  fee_config,      \* the four fee-rate fields: <<>> while all None, else <<record>>
  fee_args,        \* the arguments of the latest load_fee_rates call, <<>> before it
  start_date,      \* main.py's start_date
  end_date,        \* main.py's end_date
  slice_calls,     \* how many times slice has been called
  idx,             \* generate_nav: position of the loop in data.index (1-based)
  norm_data,       \* generate_nav: data, the normalised prices
  fee_rate,        \* generate_nav: the fee rate vector
  nav,             \* generate_nav: nav, per processed date
  fee,             \* generate_nav: fee, per processed date
  shares,          \* generate_nav: shares, per processed date
  actual_weight,   \* generate_nav: actual_weight, per processed date
  turnover_ratio,  \* generate_nav: turnover_ratio, per processed date
  summary,         \* Portfolio.backtest_results['回测结果汇总']: <<>> while None, else its rows
  sa_pc,           \* the Single_Asset object of main.py: "none", "constructed", "done", "failed"
  sa_data,         \* Single_Asset.data, the closing price sheet
  sa_results       \* Single_Asset.backtest_results: asset name -> rows

loadVars ==
  << sheets, data, weight, fee_config, fee_args, start_date, end_date, slice_calls >>

navVars == << idx, norm_data, fee_rate, nav, fee, shares, actual_weight, turnover_ratio >>

statVars == << summary, sa_pc, sa_data, sa_results >>

vars == << pc, err, loadVars, navVars, statVars >>

\* data=None, weight=None
NoFrame == Frame({}, <<>>)

\* Portfolio.__init__: nothing loaded, nothing configured, no results.
Constructed(file, df, wf, sd, ed) ==
  /\ pc = "constructed"
  /\ err = "none"
  /\ sheets = file
  /\ data = df
  /\ weight = wf
  /\ fee_config = <<>>
  /\ fee_args = <<>>
  /\ start_date = sd
  /\ end_date = ed
  /\ slice_calls = 0
  /\ idx = 0
  /\ norm_data = <<>>
  /\ fee_rate = <<>>
  /\ nav = <<>>
  /\ fee = <<>>
  /\ shares = <<>>
  /\ actual_weight = <<>>
  /\ turnover_ratio = <<>>
  /\ summary = <<>>

\* Single_Asset.__init__(ann, rf, data): no results yet.
SingleAssetConstructed(df) ==
  /\ sa_pc = "constructed"
  /\ sa_data = df
  /\ sa_results = <<>>

\* No Single_Asset object of main.py is followed.
NoSingleAsset ==
  /\ sa_pc = "none"
  /\ sa_data = NoFrame
  /\ sa_results = <<>>

\* An exception leaves the method and, uncaught in main.py, ends the run.
Raise(e) ==
  /\ pc' = "failed"
  /\ err' = e

(***************************************************************************)
(* load_sheets_from_file.                                                  *)
(***************************************************************************)
\* Faulty variant of SelectColumns: every column of the sheet is kept.
SelectColumnsAll(df, cols) == df

\* self.data[self.weight.columns]: a KeyError when a column is missing.
SelectColumns(df, cols) ==
  Frame(cols, [i \in 1 .. Len(df.recs) |->
                 Rec(df.recs[i].date, [a \in cols |-> df.recs[i].row[a]])])

LoadSheetsFromFile ==
  /\ pc = "constructed"
  /\ sheets # <<>>
  /\ weight' = SortIndex(sheets[1].weight)
  /\ IF sheets[1].weight.columns \subseteq sheets[1].data.columns
     THEN /\ data' = SelectColumns(SortIndex(sheets[1].data), sheets[1].weight.columns)
          /\ pc' = "loaded"
          /\ err' = err
     ELSE /\ data' = SortIndex(sheets[1].data)
          /\ Raise("KeyError")
  /\ UNCHANGED << sheets, fee_config, fee_args, start_date, end_date, slice_calls, navVars, statVars >>

(***************************************************************************)
(* load_fee_rates.                                                         *)
(***************************************************************************)
FeeConfig(h, hr, l, lr) ==
  [high_risk_name_list |-> h, high_risk_fee_rate |-> hr,
   low_risk_name_list |-> l, low_risk_fee_rate |-> lr]

DuplicateAssets(h, l) == h \cap l

\* Faulty variant of UnspecifiedAssets: only the high-risk list is consulted.
UnspecifiedAssetsHigh(h, l) == weight.columns \ h

UnspecifiedAssets(h, l) == weight.columns \ (h \cup l)

LoadFeeRates(h, hr, l, lr) ==
  /\ \/ pc \in {"loaded", "configured"}
     \/ pc = "constructed" /\ sheets = <<>>
  /\ fee_args' = << FeeConfig(h, hr, l, lr) >>
  /\ IF DuplicateAssets(h, l) # {} \/ UnspecifiedAssets(h, l) # {}
     THEN /\ Raise("ValueError")
          /\ fee_config' = fee_config
     ELSE /\ fee_config' = << FeeConfig(h, hr, l, lr) >>
          /\ pc' = "configured"
          /\ err' = err
  /\ UNCHANGED << sheets, data, weight, start_date, end_date, slice_calls, navVars, statVars >>

(***************************************************************************)
(* slice.                                                                  *)
(***************************************************************************)
\* The loop of step 2 over w.index, from position i on; acc holds the
\* records of date_adjusted_weight so far.
RECURSIVE AlignLoop(_, _, _, _)
AlignLoop(i, D, w, acc) ==
  IF i > Len(w.recs) THEN acc
  ELSE LET date == w.recs[i].date
           nearest_closing_date == NearestClosingDate(D, date)
           next ==
             IF date \in D THEN LocSet(acc, date, RowAt(w, date))
             ELSE IF nearest_closing_date \in Index(w) THEN acc
             ELSE LocSet(acc, nearest_closing_date, RowAt(w, date))
       IN  AlignLoop(i + 1, D, w, next)

\* Steps 2 and 3: date_adjusted_weight for the price index D and the
\* schedule w, sorted.
DateAdjustedWeight(D, w) ==
  SortIndex(Frame(w.columns, AlignLoop(1, D, w, <<>>)))

\* Faulty variant of FinalSlice: the panel is not cut at the first aligned date.
FinalSliceWhole(df, first) == df

\* Faulty variant of FinalSlice: the panel starts after the first schedule date.
FinalSliceAfter(df, first) == LocSlice(df, first + 1, None)

\* Step 3: self.data.loc[self.weight.index[0]:]
FinalSlice(df, first) == LocSlice(df, first, None)

Slice ==
  /\ pc \in {"configured", "sliced"}
  /\ slice_calls < MaxSliceCalls
  /\ slice_calls' = slice_calls + 1
  /\ LET d1 == LocSlice(data, start_date, end_date)
     IN  IF d1.recs = <<>>
         THEN \* self.data.index[0] on an empty index
              /\ data' = d1
              /\ weight' = weight
              /\ Raise("IndexError")
         ELSE LET w1 == LocSlice(weight, d1.recs[1].date, d1.recs[Len(d1.recs)].date)
                  adj == DateAdjustedWeight(Index(d1), w1)
              IN  /\ weight' = adj
                  /\ IF adj.recs = <<>>
                     THEN \* self.weight.index[0] on an empty index
                          /\ data' = d1
                          /\ Raise("IndexError")
                     ELSE /\ data' = FinalSlice(d1, adj.recs[1].date)
                          /\ pc' = "sliced"
                          /\ err' = err
  /\ UNCHANGED << sheets, fee_config, fee_args, start_date, end_date, navVars, statVars >>

(***************************************************************************)
(* generate_nav.                                                           *)
(***************************************************************************)
\* Step 1: self.data / self.data.iloc[0]
NormalisedData(df) ==
  LET first == df.recs[1].row
  IN  [d \in Index(df) |-> [a \in df.columns |-> RDiv(RowAt(df, d)[a], first[a])]]

\* Step 2: the fee rate vector over the price columns; an asset in
\* neither list keeps the nan the empty Series starts with.
FeeRateVector(cols, cfg) ==
  [a \in cols |->
     IF a \in cfg.high_risk_name_list THEN cfg.high_risk_fee_rate
     ELSE IF a \in cfg.low_risk_name_list THEN cfg.low_risk_fee_rate
     ELSE NaN]

\* Faulty variant of CalculateFee: the fee rate is left out.
CalculateFeeNoRate(sb, sa, f, pa) ==
  RSum(DOMAIN f, [a \in DOMAIN f |-> RMul(RAbs(RSub(sb[a], sa[a])), pa[a])])

\* sum(abs(sb - sa) * f * pa)
CalculateFee(sb, sa, f, pa) ==
  RSum(DOMAIN f, [a \in DOMAIN f |-> RMul(RMul(RAbs(RSub(sb[a], sa[a])), f[a]), pa[a])])

\* self.calculate_fee(sb=sb, sa=(wa/pa)*x, f=f, pa=pa) - navb + x
NavEquation(x, sb, wa, pa, f, navb) ==
  RAdd(RSub(CalculateFee(sb, [a \in DOMAIN f |-> RMul(RDiv(wa[a], pa[a]), x)], f, pa),
            navb),
       x)

\* Faulty variant of Carry: every position gains as a long one.
CarryLong(sh, pnow, pbefore) ==
  RSum(DOMAIN sh, [a \in DOMAIN sh |-> RMul(RAbs(sh[a]), RSub(pnow[a], pbefore[a]))])

\* sum(shares * (p_now - p_before))
Carry(sh, pnow, pbefore) ==
  RSum(DOMAIN sh, [a \in DOMAIN sh |-> RMul(sh[a], RSub(pnow[a], pbefore[a]))])

\* max(self.high_risk_fee_rate, self.low_risk_fee_rate)
MaxFeeRate(cfg) ==
  IF RLess(cfg.high_risk_fee_rate, cfg.low_risk_fee_rate)
  THEN cfg.low_risk_fee_rate ELSE cfg.high_risk_fee_rate

\* nav_equation is piecewise linear in x, one piece per choice of the sign
\* of sb - (wa/pa)*x in every asset; the zero of each piece's line, if any.
PieceZeros(sb, wa, pa, f, navb) ==
  LET cols == DOMAIN f
      zero(sg) ==
        LET num == RSub(navb,
                        RSum(cols, [a \in cols |->
                               RMul(sg[a], RMul(f[a], RMul(sb[a], pa[a])))]))
            den == RSub(One,
                        RSum(cols, [a \in cols |-> RMul(sg[a], RMul(f[a], wa[a]))]))
        IN  RDiv(num, den)
  IN  { zero(sg) : sg \in [cols -> {One, RNeg(One)}] }

\* The zeros of nav_equation.
Roots(sb, wa, pa, f, navb) ==
  { x \in PieceZeros(sb, wa, pa, f, navb) :
      IsFinite(x) /\ NavEquation(x, sb, wa, pa, f, navb) = Zero }

\* Faulty variant of Newton: past the iteration cap the midpoint of the two
\* starting points is returned in place of the RuntimeError.
NewtonApproximate(sb, wa, pa, f, navb, x0, x1) ==
  IF x1 = x0 THEN { [status |-> "ValueError", x |-> NaN] }
  ELSE { [status |-> "ok", x |-> r] : r \in Roots(sb, wa, pa, f, navb) }
       \cup { [status |-> "ok", x |-> RDiv(RAdd(x0, x1), <<2, 1>>)] }

\* scipy.optimize.newton(func, x0, args, x1=x1) without fprime: the secant
\* method, at most maxiter = 50 iterations.  It raises ValueError when
\* x1 = x0, returns a zero of func when it converges, and raises
\* RuntimeError when it does not; which of the last two happens is left open.
Newton(sb, wa, pa, f, navb, x0, x1) ==
  IF x1 = x0 THEN { [status |-> "ValueError", x |-> NaN] }
  ELSE { [status |-> "ok", x |-> r] : r \in Roots(sb, wa, pa, f, navb) }
       \cup { [status |-> "RuntimeError", x |-> NaN] }

GenerateNavBegin ==
  /\ pc = "sliced"
  /\ pc' = "nav"
  /\ idx' = 1
  /\ norm_data' = NormalisedData(data)
  /\ fee_rate' = FeeRateVector(data.columns, fee_config[1])
  /\ UNCHANGED << err, loadVars, nav, fee, shares, actual_weight, turnover_ratio, statVars >>

\* f with the value v added at date d.
Put(f, d, v) == [e \in DOMAIN f \cup {d} |-> IF e = d THEN v ELSE f[e]]

\* Step 4, after the last date: the series become the results.
AfterDate(order) == IF idx = Len(order) THEN "done" ELSE "nav"

\* Faulty variant of InitialNav: the initial fee is taken out of the nav.
InitialNavNetOfFee(initial_fee) == RSub(One, initial_fee)

\* nav.loc[date] = 1 on the start date, whatever the initial fee.
InitialNav(initial_fee) == One

\* The loop body for the start date (idx == 0 in the code).
FirstDate(date) ==
  LET cols == data.columns
      p == norm_data[date]
      w == RowAt(weight, date)
      sh == [a \in cols |-> RDiv(w[a], p[a])]
      initial_fee == CalculateFee([a \in cols |-> Zero], sh, fee_rate, p)
  IN  /\ actual_weight' = Put(actual_weight, date, w)
      /\ nav' = Put(nav, date, InitialNav(initial_fee))
      /\ shares' = Put(shares, date, sh)
      /\ fee' = Put(fee, date, initial_fee)
      /\ turnover_ratio' = Put(turnover_ratio, date, [a \in cols |-> RAbs(w[a])])

\* nav carried over without the price move.
CarriedNavFlat(navprev, sh, pnow, pbefore) == navprev

\* nav on a date without rebalancing.
CarriedNav(navprev, sh, pnow, pbefore) == RAdd(navprev, Carry(sh, pnow, pbefore))

\* The loop body for a date that is not in input_weight.index.
NoRebalance(date, prev) ==
  LET cols == data.columns
      p == norm_data[date]
      sh == shares[prev]
      n == CarriedNav(nav[prev], sh, p, norm_data[prev])
  IN  /\ shares' = Put(shares, date, sh)
      /\ fee' = Put(fee, date, Zero)
      /\ turnover_ratio' = Put(turnover_ratio, date, [a \in cols |-> Zero])
      /\ nav' = Put(nav, date, n)
      /\ actual_weight' = Put(actual_weight, date,
                              [a \in cols |-> RDiv(RMul(sh[a], p[a]), n)])

\* nav_before taken as the previous nav, without the price move.
NavBeforeStale(date, prev) == nav[prev]

\* nav_before on a rebalancing date.
NavBefore(date, prev) ==
  RAdd(nav[prev], Carry(shares[prev], norm_data[date], norm_data[prev]))

\* shares as on the start date, not scaled by nav_after.
SharesAfterUnscaled(w, nav_after, p) == [a \in DOMAIN w |-> RDiv(w[a], p[a])]

\* shares right after rebalancing: actual_weight * nav_after / data
SharesAfter(w, nav_after, p) == [a \in DOMAIN w |-> RDiv(RMul(w[a], nav_after), p[a])]

\* The fee with the two navs exchanged.
RebalanceFeeReversed(nav_before, nav_after) == RSub(nav_after, nav_before)

\* fee on a rebalancing date.
RebalanceFee(nav_before, nav_after) == RSub(nav_before, nav_after)

\* Faulty variant of PreviousWeight: the holdings of the previous date at
\* this date's prices, over nav_before.
DriftedWeight(date, prev) ==
  [a \in data.columns |->
     RDiv(RMul(shares[prev][a], norm_data[date][a]), NavBefore(date, prev))]

\* actual_weight.loc[actual_weight.index[idx - 1]]: the previous row of
\* actual_weight, as recorded.
PreviousWeight(date, prev) == actual_weight[prev]

\* The loop body for a rebalancing date, newton having returned nav_after.
Rebalance(date, prev, nav_after) ==
  LET cols == data.columns
      p == norm_data[date]
      w == RowAt(weight, date)
  IN  /\ fee' = Put(fee, date, RebalanceFee(NavBefore(date, prev), nav_after))
      /\ nav' = Put(nav, date, nav_after)
      /\ actual_weight' = Put(actual_weight, date, w)
      /\ shares' = Put(shares, date, SharesAfter(w, nav_after, p))
      /\ turnover_ratio' = Put(turnover_ratio, date,
                               [a \in cols |->
                                  RAbs(RSub(w[a], PreviousWeight(date, prev)[a]))])

\* One pass of the loop of step 3, for the date at position idx.
NavStep ==
  /\ pc = "nav"
  /\ LET order == IndexSeq(data)
         date == order[idx]
     IN  \/ /\ idx = 1
            /\ FirstDate(date)
            /\ pc' = AfterDate(order)
            /\ idx' = idx + 1
            /\ err' = err
         \/ /\ idx > 1
            /\ date \notin Index(weight)
            /\ NoRebalance(date, order[idx - 1])
            /\ pc' = AfterDate(order)
            /\ idx' = idx + 1
            /\ err' = err
         \/ /\ idx > 1
            /\ date \in Index(weight)
            /\ LET prev == order[idx - 1]
                   nav_before == NavBefore(date, prev)
               IN  \E r \in Newton(shares[prev], RowAt(weight, date), norm_data[date],
                                   fee_rate, nav_before, nav_before,
                                   RMul(nav_before, MaxFeeRate(fee_config[1]))) :
                     IF r.status = "ok"
                     THEN /\ Rebalance(date, prev, r.x)
                          /\ pc' = AfterDate(order)
                          /\ idx' = idx + 1
                          /\ err' = err
                     ELSE /\ Raise(r.status)
                          /\ UNCHANGED << idx, nav, fee, shares, actual_weight,
                                          turnover_ratio >>
  /\ UNCHANGED << loadVars, norm_data, fee_rate, statVars >>

(***************************************************************************)
(* Single_Asset: statistics of one closing price series.  A series is a    *)
(* sequence of observations in date order; the index holds dates without   *)
(* a time of day, so Timestamp.date() and pd.to_datetime name the same     *)
(* date and a date is modelled by its day number.                          *)
(***************************************************************************)
Obs(d, v) == [date |-> d, value |-> v]

\* How many day numbers fall into one calendar year.
DatesPerYear == 2

\* index.year
YearOf(d) == d \div DatesPerYear

\* nav_series.cummax()
RECURSIVE CumMax(_, _)
CumMax(s, i) ==
  IF i = 1 THEN s[1].value
  ELSE LET m == CumMax(s, i - 1)
       IN  IF RLess(m, s[i].value) THEN s[i].value ELSE m

\* Faulty variant of DrawdownSeries: the fall from the first value.
DrawdownFromFirst(s) ==
  [i \in 1 .. Len(s) |-> RSub(RDiv(s[i].value, s[1].value), One)]

\* dd = nav_series.div(nav_series.cummax()).sub(1)
DrawdownSeries(s) ==
  [i \in 1 .. Len(s) |-> RSub(RDiv(s[i].value, CumMax(s, i)), One)]

\* Series.idxmin(): the first position of the least value, nan skipped.
IdxMin(x) ==
  CHOOSE i \in 1 .. Len(x) :
    /\ ~IsNaN(x[i])
    /\ \A j \in 1 .. Len(x) : ~IsNaN(x[j]) => ~RLess(x[j], x[i])
    /\ \A j \in 1 .. i - 1 : IsNaN(x[j]) \/ RLess(x[i], x[j])

\* Series.idxmax() over the positions 1..n: the first position of the
\* greatest value.
IdxMax(x, n) ==
  CHOOSE i \in 1 .. n :
    /\ \A j \in 1 .. n : ~RLess(x[i], x[j])
    /\ \A j \in 1 .. i - 1 : RLess(x[j], x[i])

\* dd holds nan only: dd.idxmin() is not a Timestamp and .date() fails.
MddFails(s) == \A i \in 1 .. Len(s) : IsNaN(DrawdownSeries(s)[i])

\* Single_Asset.mdd: -mdd, start, formation.
Mdd(s) ==
  LET dd == DrawdownSeries(s)
      f == IdxMin(dd)
      st == IdxMax([i \in 1 .. Len(s) |-> s[i].value], f)
  IN  [mdd |-> RNeg(dd[f]), start |-> s[st].date, formation |-> s[f].date]

\* main.py: ann = 250, rf = 0
ann == 250

rf == Zero

\* A statistic is a term: a float known exactly, [op |-> "num"], or an
\* expression in a power or a square root that has no rational value.
Num(q) == [op |-> "num", q |-> q]

IsNum(t) == t.op = "num"

\* x - y
TSub(x, y) ==
  IF IsNum(x) /\ IsNum(y) THEN Num(RSub(x.q, y.q))
  ELSE IF (IsNum(x) /\ IsNaN(x.q)) \/ (IsNum(y) /\ IsNaN(y.q)) THEN Num(NaN)
  ELSE [op |-> "sub", x |-> x, y |-> y]

\* x / y on numpy floats: no exception for a zero divisor.
TDiv(x, y) ==
  IF IsNum(x) /\ IsNum(y) THEN Num(RDiv(x.q, y.q))
  ELSE IF (IsNum(x) /\ IsNaN(x.q)) \/ (IsNum(y) /\ IsNaN(y.q)) THEN Num(NaN)
  ELSE [op |-> "div", x |-> x, y |-> y]

\* x ** (a / n)
TPow(x, a, n) ==
  IF IsNaN(x) THEN Num(NaN) ELSE [op |-> "pow", base |-> x, num |-> a, den |-> n]

\* ret_series = nav_series.pct_change(): nan first, then v[i] / v[i-1] - 1.
PctChange(s) ==
  [i \in 1 .. Len(s) |->
     IF i = 1 THEN NaN ELSE RSub(RDiv(s[i].value, s[i - 1].value), One)]

\* np.nanstd(x, ddof=1): nan entries are left out; nan when fewer than two
\* entries remain or one is infinite, 0 when all are equal, else a term
\* over the entries.
NanStd(x) ==
  LET entries == SelectSeq(x, LAMBDA v : ~IsNaN(v))
  IN  IF Len(entries) < 2 THEN Num(NaN)
      ELSE IF \E i \in 1 .. Len(entries) : ~IsFinite(entries[i]) THEN Num(NaN)
      ELSE IF \A i \in 1 .. Len(entries) : entries[i] = entries[1] THEN Num(Zero)
      ELSE [op |-> "nanstd", of |-> entries]

\* np.nanstd(ret_series, ddof=1) * np.sqrt(self.ann)
AnnualizedStdev(s) ==
  LET sd == NanStd(PctChange(s))
  IN  IF IsNum(sd) THEN sd
      ELSE [op |-> "mul", x |-> sd, y |-> [op |-> "sqrt", of |-> << ann, 1 >>]]

\* nav_series.iloc[-1] / nav_series.iloc[0] - 1
HoldingPeriodReturn(s) == RSub(RDiv(s[Len(s)].value, s[1].value), One)

\* Faulty variant of AnnualizedReturn: the exponent is applied whatever
\* annualize says.
AnnualizedReturnAlways(s, annualize) ==
  TSub(TPow(RAdd(HoldingPeriodReturn(s), One), ann, Len(s) - 1), Num(One))

\* (holding_period_return + 1) ** (self.ann / (len(ret_series) - 1)) - 1
\* if annualize is True else holding_period_return
AnnualizedReturn(s, annualize) ==
  IF annualize
  THEN TSub(TPow(RAdd(HoldingPeriodReturn(s), One), ann, Len(s) - 1), Num(One))
  ELSE Num(HoldingPeriodReturn(s))

\* Faulty variant of Calmar: the guard is mdd >= 0.
CalmarNotGuarded(annualized_return, mdd) ==
  IF RLeq(Zero, mdd) THEN TDiv(TSub(annualized_return, Num(rf)), Num(mdd))
  ELSE Num(NaN)

\* calmar = (annualized_return - self.rf) / mdd if mdd > 0 else np.nan
Calmar(annualized_return, mdd) ==
  IF RLess(Zero, mdd) THEN TDiv(TSub(annualized_return, Num(rf)), Num(mdd))
  ELSE Num(NaN)

\* The recovery date cell: np.nan, the sentinel '尚未恢复' (not yet
\* recovered), or a date.
NoRecoveryDate == << "nan" >>

NotYetRecovered == << "not yet recovered" >>

Recovered(d) == << "date", d >>

\* The exception backtest_series raises on s, "none" if it returns.
BacktestSeriesError(s, annualize) ==
  IF Len(s) = 0 THEN "IndexError"
  ELSE IF annualize /\ Len(s) = 1 THEN "ZeroDivisionError"
  ELSE IF MddFails(s) THEN "AttributeError"
  ELSE "none"

\* Single_Asset.backtest_series: the one-row DataFrame of stats.
BacktestSeries(s, annualize) ==
  LET m == Mdd(s)
      ar == AnnualizedReturn(s, annualize)
      sd == AnnualizedStdev(s)
  IN  [holding_period_return |-> Num(HoldingPeriodReturn(s)),
       annualized_return |-> ar,
       annualized_stdev |-> sd,
       mdd |-> Num(m.mdd),
       sharpe |-> TDiv(TSub(ar, Num(rf)), sd),
       calmar |-> Calmar(ar, m.mdd),
       mdd_start |-> m.start,
       mdd_formation |-> m.formation,
       mdd_recovery |-> NoRecoveryDate]

\* self.data[asset_name].dropna()
DropNa(df, asset_name) ==
  LET kept == SelectSeq(df.recs, LAMBDA r : ~IsNaN(r.row[asset_name]))
  IN  [i \in 1 .. Len(kept) |-> Obs(kept[i].date, kept[i].row[asset_name])]

\* nav_series.loc[nav_series.index.year == year]
YearSlice(s, year) == SelectSeq(s, LAMBDA o : YearOf(o.date) = year)

\* years = list(set(nav_series.index.year)); years.sort()
Years(s) == Ascending({ YearOf(s[i].date) : i \in 1 .. Len(s) })

\* The by-year series without the close of the year before.
NotAnchoredSlice(s, years, k) == YearSlice(s, years[k])

\* Faulty variant of AnchoredSlice: the observation put in front is the
\* first of the year before.
AnchoredAtPreviousOpen(s, years, k) ==
  IF k = 1 THEN YearSlice(s, years[k])
  ELSE << YearSlice(s, years[k - 1])[1] >> \o YearSlice(s, years[k])

\* The series backtest hands to backtest_series for years[k]: from the
\* second year on, the last observation of the year before is put in front.
AnchoredSlice(s, years, k) ==
  IF k = 1 THEN YearSlice(s, years[k])
  ELSE LET before == YearSlice(s, years[k - 1])
       IN  << before[Len(before)] >> \o YearSlice(s, years[k])

\* The positions of years that get a row: all but a first year of one
\* observation.
ReportedYears(s) ==
  LET years == Years(s)
  IN  { k \in 1 .. Len(years) : ~(k = 1 /\ Len(YearSlice(s, years[1])) = 1) }

\* The try block around the recovery date: the first date after start
\* whose value is at least that of start; any exception gives the sentinel.
RecoveryDate(s, start) ==
  LET at == CHOOSE i \in 1 .. Len(s) : s[i].date = start
      later == { i \in 1 .. Len(s) :
                   /\ RLeq(s[at].value, s[i].value)
                   /\ s[i].date > start }
  IN  IF later = {} THEN NotYetRecovered ELSE Recovered(s[Min(later)].date)

\* Row labels of the result.
WholePeriod == << "whole period" >>

Year(y) == << "year", y >>

\* A row of backtest_series with its recovery date and its index label.
StatsRow(s, slice, annualize, label) ==
  LET row == BacktestSeries(slice, annualize)
  IN  [label |-> label,
       holding_period_return |-> row.holding_period_return,
       annualized_return |-> row.annualized_return,
       annualized_stdev |-> row.annualized_stdev,
       mdd |-> row.mdd,
       sharpe |-> row.sharpe,
       calmar |-> row.calmar,
       mdd_start |-> row.mdd_start,
       mdd_formation |-> row.mdd_formation,
       mdd_recovery |-> RecoveryDate(s, row.mdd_start)]

\* The exception Single_Asset.backtest raises on the series s: that of the
\* whole period, else that of the first failing year; "none" if it returns.
BacktestError(s) ==
  IF BacktestSeriesError(s, TRUE) # "none" THEN BacktestSeriesError(s, TRUE)
  ELSE LET years == Years(s)
           failing == { k \in ReportedYears(s) :
                          BacktestSeriesError(AnchoredSlice(s, years, k), FALSE) # "none" }
       IN  IF failing = {} THEN "none"
           ELSE BacktestSeriesError(AnchoredSlice(s, years, Min(failing)), FALSE)

\* pd.concat(df_list): the row of the whole period, then one row per
\* reported year in ascending order.
BacktestRows(s) ==
  LET years == Years(s)
      reported == Ascending(ReportedYears(s))
  IN  << StatsRow(s, s, TRUE, WholePeriod) >>
      \o [j \in 1 .. Len(reported) |->
            StatsRow(s, AnchoredSlice(s, years, reported[j]), FALSE,
                     Year(years[reported[j]]))]

\* An exception leaves a Single_Asset method and ends its run.
RaiseSingleAsset(e) ==
  /\ sa_pc' = "failed"
  /\ err' = e

\* Single_Asset.load_sheet_from_file on the price sheet of the workbook.
LoadSheetFromFile ==
  /\ sa_pc = "constructed"
  /\ sheets # <<>>
  /\ sa_data' = SortIndex(sheets[1].data)
  /\ sa_pc' = "loaded"
  /\ UNCHANGED << pc, err, loadVars, navVars, summary, sa_results >>

\* Single_Asset.slice(start_date, end_date)
SingleAssetSlice ==
  /\ sa_pc = "loaded"
  /\ sa_data' = LocSlice(sa_data, start_date, end_date)
  /\ sa_pc' = "sliced"
  /\ UNCHANGED << pc, err, loadVars, navVars, summary, sa_results >>

\* Single_Asset.backtest(asset_name), once per asset name.
Backtest(asset_name) ==
  /\ sa_pc \in {"sliced", "done"}
  /\ asset_name \notin DOMAIN sa_results
  /\ IF asset_name \notin sa_data.columns
     THEN RaiseSingleAsset("ValueError") /\ sa_results' = sa_results
     ELSE LET nav_series == DropNa(sa_data, asset_name)
          IN  IF BacktestError(nav_series) # "none"
              THEN RaiseSingleAsset(BacktestError(nav_series)) /\ sa_results' = sa_results
              ELSE /\ sa_results' = [a \in DOMAIN sa_results \cup {asset_name} |->
                                       IF a = asset_name THEN BacktestRows(nav_series)
                                       ELSE sa_results[a]]
                   /\ sa_pc' = "done"
                   /\ err' = err
  /\ UNCHANGED << pc, loadVars, navVars, summary, sa_data >>

(***************************************************************************)
(* Portfolio.backtest: the statistics of the NAV series, then the turnover *)
(* totals.  A row of the summary is [label, stats, turnover,               *)
(* portfolio_turnover]; stats holds the row of Single_Asset.backtest, or   *)
(* nothing for a row whose statistics cells are all nan.                   *)
(***************************************************************************)
\* pd.DataFrame(nav)['组合净值'].dropna() inside Single_Asset.backtest
NavSeries ==
  LET order == SelectSeq(IndexSeq(data), LAMBDA d : ~IsNaN(nav[d]))
  IN  [i \in 1 .. Len(order) |-> Obs(order[i], nav[order[i]])]

\* years = list(set(turnover.index.year)); years.sort()
TurnoverYears == Ascending({ YearOf(d) : d \in DOMAIN turnover_ratio })

\* The dates of turnover a row label stands for.
LabelDates(label) ==
  IF label = WholePeriod THEN DOMAIN turnover_ratio
  ELSE { d \in DOMAIN turnover_ratio : YearOf(d) = label[2] }

\* sum(turnover[asset]) over the dates in D
TurnoverTotal(asset, D) == RSum(D, [d \in D |-> turnover_ratio[d][asset]])

\* Faulty variant of PortfolioTurnover: the column is not added up.
PortfolioTurnoverNotSummed(initial, D) == initial

\* The cell of '组合换手率' after the loop over the assets: each asset's
\* total is added to the cell's initial value.
PortfolioTurnover(initial, D) ==
  RAdd(initial, RSum(data.columns, [a \in data.columns |-> TurnoverTotal(a, D)]))

\* A row of the summary after the turnover loops.  initial is the value of
\* its '组合换手率' cell before them: 0 for a row of the statistics table,
\* nan for a row that .loc[year, column] = value has appended.
SummaryRow(label, stats, initial) ==
  [label |-> label,
   stats |-> stats,
   turnover |-> [a \in data.columns |-> TurnoverTotal(a, LabelDates(label))],
   portfolio_turnover |-> PortfolioTurnover(initial, LabelDates(label))]

\* The years of turnover that have no row in the statistics table, in the
\* order the loop over years meets them.
YearsWithoutRow(rows) ==
  SelectSeq(TurnoverYears,
            LAMBDA y : \A i \in 1 .. Len(rows) : rows[i].label # Year(y))

\* backtest_results['回测结果汇总'] at the end of Portfolio.backtest: the
\* rows of the statistics table, then one appended row for every year of
\* turnover that had none.
Summary(rows) ==
  LET appended == YearsWithoutRow(rows)
  IN  [i \in 1 .. Len(rows) |-> SummaryRow(rows[i].label, << rows[i] >>, Zero)]
      \o [j \in 1 .. Len(appended) |-> SummaryRow(Year(appended[j]), << >>, NaN)]

PortfolioBacktest ==
  /\ pc = "done"
  /\ IF BacktestError(NavSeries) # "none"
     THEN /\ Raise(BacktestError(NavSeries))
          /\ summary' = summary
     ELSE /\ pc' = "backtested"
          /\ err' = err
          /\ summary' = Summary(BacktestRows(NavSeries))
  /\ UNCHANGED << loadVars, navVars, sa_pc, sa_data, sa_results >>

(***************************************************************************)
(* Inputs and specifications.                                              *)
(***************************************************************************)
Assets == {"A", "B"}

Half == <<1, 2>>

Reverse(seq) == [i \in 1 .. Len(seq) |-> seq[Len(seq) + 1 - i]]

\* The records of a sheet whose dates, in the order given, carry the rows of rowOf.
SheetRecs(order, rowOf) == [i \in 1 .. Len(order) |-> Rec(order[i], rowOf[order[i]])]

UnitRow == [a \in Assets |-> One]

\* Alignment: any price dates and any schedule dates, the schedule sheet in
\* ascending or descending order, prices flat, two distinct weight rows,
\* and the bounds of main.py open or inside the calendar.
AlignWeightRows ==
  { [a \in Assets |-> Half], [a \in Assets |-> IF a = "A" THEN One ELSE Zero] }

InitAlign ==
  /\ NoSingleAsset
  /\ \E D \in SUBSET Dates, W \in SUBSET Dates, sd \in {None, 2}, ed \in {None, MaxDate - 1},
     desc \in BOOLEAN :
    \E rowOf \in [W -> AlignWeightRows] :
      /\ desc => Cardinality(W) > 1
      /\ Constructed(
           << [data |-> Frame(Assets, SheetRecs(Ascending(D), [d \in D |-> UnitRow])),
               weight |-> Frame(Assets,
                                SheetRecs(IF desc THEN Reverse(Ascending(W))
                                          ELSE Ascending(W), rowOf))] >>,
           NoFrame, NoFrame, sd, ed)

NextAlign ==
  \/ LoadSheetsFromFile
  \/ LoadFeeRates({"A"}, Zero, {"B"}, Zero)
  \/ Slice
  \/ GenerateNavBegin
  \/ NavStep

SpecAlign == InitAlign /\ [][NextAlign]_vars

\* Configuration: the price panel and the weight schedule with any column
\* sets, read from the workbook or handed to the constructor, and
\* load_fee_rates called with any two name lists.
Tenth == <<1, 10>>

Twentieth == <<1, 20>>

ConfigColumns == SUBSET Assets \ {{}}

ConfigPanel(cols) == Frame(cols, << Rec(1, [a \in cols |-> One]), Rec(2, [a \in cols |-> One]) >>)

ConfigSchedule(cols) == Frame(cols, << Rec(1, [a \in cols |-> Half]) >>)

InitConfig ==
  /\ NoSingleAsset
  /\ \E dc \in ConfigColumns, wc \in ConfigColumns :
    \/ Constructed(<< [data |-> ConfigPanel(dc), weight |-> ConfigSchedule(wc)] >>,
                   NoFrame, NoFrame, None, None)
    \/ Constructed(<<>>, ConfigPanel(dc), ConfigSchedule(wc), None, None)

NextConfig ==
  \/ LoadSheetsFromFile
  \/ \E h \in SUBSET Assets, l \in SUBSET Assets : LoadFeeRates(h, Tenth, l, Twentieth)
  \/ Slice
  \/ GenerateNavBegin

SpecConfig == InitConfig /\ [][NextConfig]_vars

\* Simulation: a price on every date 1..MaxNavDate, the first row and the
\* later rows from a few price rows, a schedule on any of these dates with
\* even, one-sided and leveraged (short) weight rows, the bounds of main.py
\* open, slice called once as in main.py, and load_fee_rates called with
\* no, small and large fee rates.
NavDates == 1 .. MaxNavDate

Whole(n) == <<n, 1>>

PriceRow(a, b) == [c \in Assets |-> IF c = "A" THEN Whole(a) ELSE Whole(b)]

FirstPriceRows == { PriceRow(1, 1), PriceRow(2, 1) }

LaterPriceRows == { PriceRow(1, 1), PriceRow(2, 1), PriceRow(1, 2) }

NavWeightRows ==
  { [c \in Assets |-> Half],
    [c \in Assets |-> IF c = "A" THEN One ELSE Zero],
    [c \in Assets |-> IF c = "A" THEN <<3, 2>> ELSE <<-1, 2>>] }

\* The weights of a single rebalance to 60% and 40%.
ScenarioWeightRow == [c \in Assets |-> IF c = "A" THEN <<3, 5>> ELSE <<2, 5>>]

\* The weight schedules over the dates W: any of NavWeightRows on each date,
\* and the 60/40 row for a schedule of the first date alone.
NavSchedules(W) ==
  [W -> NavWeightRows]
    \cup (IF W = {1} THEN { [d \in W |-> ScenarioWeightRow] } ELSE {})

FeeRatePairs == { <<Zero, Zero>>, <<Tenth, Twentieth>>, <<<<1, 4>>, <<1, 8>>>> }

InitNav ==
  /\ NoSingleAsset
  /\ \E W \in SUBSET NavDates, first \in FirstPriceRows :
    \E priceOf \in [NavDates \ {1} -> LaterPriceRows], rowOf \in NavSchedules(W) :
      Constructed(
        << [data |-> Frame(Assets,
                           SheetRecs(Ascending(NavDates),
                                     [d \in NavDates |-> IF d = 1 THEN first ELSE priceOf[d]])),
            weight |-> Frame(Assets, SheetRecs(Ascending(W), rowOf))] >>,
        NoFrame, NoFrame, None, None)

NextNav ==
  \/ LoadSheetsFromFile
  \/ \E fr \in FeeRatePairs : LoadFeeRates({"A"}, fr[1], {"B"}, fr[2])
  \/ slice_calls = 0 /\ Slice
  \/ GenerateNavBegin
  \/ NavStep
  \/ PortfolioBacktest

SpecNav == InitNav /\ [][NextNav]_vars

\* A pass of the loop of step 3, by its effect on pc and idx: from inside
\* the loop the only steps are those of NavStep, and each moves pc or idx.
NavLoopStep ==
  /\ pc = "nav"
  /\ pc' \in {"nav", "done", "failed"}
  /\ idx' \in {idx, idx + 1}

\* generate_nav runs its loop without being held up: inside the loop, a
\* pass of the loop is eventually taken.
SpecNavLive == SpecNav /\ WF_<<pc, idx>>(NavLoopStep)

\* Statistics: a price sheet with the one asset A on any dates of the
\* calendar, a missing, zero or positive price on each, the bounds of
\* main.py open; main.py's Single_Asset calls, backtest with a name the
\* sheet holds and with one it does not.
StatValues == { NaN, Zero, One, << 2, 1 >>, << 3, 1 >> }

InitStats ==
  /\ \E D \in SUBSET Dates :
       \E valueOf \in [D -> StatValues] :
         Constructed(
           << [data |-> Frame({"A"}, SheetRecs(Ascending(D),
                                               [d \in D |-> [a \in {"A"} |-> valueOf[d]]])),
               weight |-> NoFrame] >>,
           NoFrame, NoFrame, None, None)
  /\ SingleAssetConstructed(NoFrame)

NextStats ==
  \/ LoadSheetFromFile
  \/ SingleAssetSlice
  \/ \E asset_name \in Assets : Backtest(asset_name)

SpecStats == InitStats /\ [][NextStats]_vars

(***************************************************************************)
(* Alignment (slice).                                                      *)
(***************************************************************************)
Sliced == pc \in {"sliced", "nav", "done", "backtested"}

StrictlyAscending(seq) == \A i \in 1 .. Len(seq) - 1 : seq[i] < seq[i + 1]

\* C1: after slice every date of the aligned schedule is a date of the price
\* index, and the aligned schedule's dates are strictly ascending (hence
\* without duplicates).
C1_AlignedDatesInPriceIndex ==
  Sliced => /\ Index(weight) \subseteq Index(data)
            /\ StrictlyAscending(IndexSeq(weight))

\* A first slice has aligned a schedule with a date that is not a price
\* date, and left two or more rows.
C1_Witness ==
  /\ pc = "sliced"
  /\ slice_calls = 1
  /\ Len(weight.recs) >= 2
  /\ \E w \in Index(sheets[1].weight) :
       /\ w \notin Index(sheets[1].data)
       /\ InBounds(w, start_date, end_date)
       /\ \E d \in Index(weight) : d < w /\ w \notin Index(weight)

\* The price dates within the bounds and the schedule dates within their
\* range, as slice sees them in the state it is called in.
PriceDates == { d \in Index(data) : InBounds(d, start_date, end_date) }

ScheduleDates == { w \in Index(weight) : Min(PriceDates) <= w /\ w <= Max(PriceDates) }

Preceding(w) == Max({ d \in PriceDates : d <= w })

SliceSucceeds == pc \in {"configured", "sliced"} /\ pc' = "sliced"

\* C2 as claimed: a schedule date that is a price date keeps its row; any
\* other one's row is placed at the preceding price date d unless d is a
\* schedule date itself.
C2_AlignmentRuleAsClaimed ==
  [][SliceSucceeds =>
       \A w \in ScheduleDates :
         IF w \in PriceDates
         THEN w \in Index(weight') /\ RowAt(weight', w) = RowAt(weight, w)
         ELSE Preceding(w) \notin ScheduleDates =>
                /\ Preceding(w) \in Index(weight')
                /\ RowAt(weight', Preceding(w)) = RowAt(weight, w)]_vars

\* The schedule dates that are no price dates and share w's preceding date.
MovedWith(w) ==
  { v \in ScheduleDates : v \notin PriceDates /\ Preceding(v) = Preceding(w) }

\* C2, amended: a schedule date that is a price date keeps its row, never
\* overwritten; any other one is dropped when its preceding price date d is
\* a schedule date, and otherwise d holds the row of the latest schedule
\* date moved to d; the aligned schedule has no other date.
C2_AlignmentRule ==
  [][SliceSucceeds =>
       /\ \A w \in ScheduleDates :
            IF w \in PriceDates
            THEN w \in Index(weight') /\ RowAt(weight', w) = RowAt(weight, w)
            ELSE /\ w \notin Index(weight')
                 /\ Preceding(w) \in Index(weight')
                 /\ Preceding(w) \notin ScheduleDates =>
                      RowAt(weight', Preceding(w)) = RowAt(weight, Max(MovedWith(w)))
       /\ \A d \in Index(weight') :
            d \in ScheduleDates \/ \E w \in ScheduleDates : MovedWith(w) # {} /\ Preceding(w) = d]_vars

\* A slice has moved two schedule dates with different rows to the same
\* preceding price date, which holds the later one's row.
C2_Witness ==
  /\ pc = "sliced"
  /\ slice_calls = 1
  /\ \E v, w \in Index(sheets[1].weight), d \in Index(weight) :
       /\ d < v /\ v < w
       /\ w <= Max(Index(data))
       /\ d \notin Index(sheets[1].weight)
       /\ \A e \in Index(data) : ~(d < e /\ e <= w)
       /\ RowAt(sheets[1].weight, v) # RowAt(sheets[1].weight, w)
       /\ RowAt(weight, d) = RowAt(sheets[1].weight, w)

\* C3: a second slice with the same bounds, on the panel and the schedule a
\* first slice produced, succeeds and leaves both as they are.
C3_AlignmentIdempotent ==
  [][(pc = "sliced" /\ slice_calls' = slice_calls + 1) =>
       /\ pc' = "sliced"
       /\ weight' = weight
       /\ data' = data]_vars

\* Slice has run twice, the first run having cut the panel and moved a row.
C3_Witness ==
  /\ pc = "sliced"
  /\ slice_calls = 2
  /\ Len(data.recs) < Len(sheets[1].data.recs)
  /\ Len(data.recs) > Len(weight.recs)
  /\ \E d \in Index(weight) : d \notin Index(sheets[1].weight)

\* Slice has failed on a schedule with no date in the range of a non-empty
\* price panel.
EmptyScheduleFailure ==
  /\ pc = "failed"
  /\ slice_calls = 1
  /\ data.recs # <<>>
  /\ weight.recs = <<>>

\* C4 as claimed: an empty aligned schedule ends slice with a configuration
\* error that names the missing rebalancing dates, before any simulation step.
C4_EmptyScheduleIsConfigurationError ==
  EmptyScheduleFailure => err = "ConfigurationError" /\ nav = <<>>

(***************************************************************************)
(* Configuration (columns and fee rates).                                  *)
(***************************************************************************)
FromFile == sheets # <<>>

\* The column sets of the panel and of the schedule as they come in.
InputDataColumns == IF FromFile THEN sheets[1].data.columns ELSE data.columns

InputWeightColumns == IF FromFile THEN sheets[1].weight.columns ELSE weight.columns

\* C5 as claimed: with differing column sets the run fails before
\* alignment, and no backtest proceeds.
C5_ColumnMismatchIsFatalAsClaimed ==
  InputDataColumns # InputWeightColumns =>
    slice_calls = 0 /\ pc \in {"constructed", "failed"}

\* C5, amended: load_sheets_from_file fails with a KeyError, before
\* alignment, exactly when an asset is only in the weight sheet; an asset
\* only in the price sheet is dropped without an error, so after a
\* successful load the two column sets are the weight sheet's.  Frames handed
\* to the constructor are never checked: their columns stay as given and no
\* column error is raised.
C5_ColumnHandling ==
  /\ (FromFile /\ pc # "constructed") =>
       IF sheets[1].weight.columns \subseteq sheets[1].data.columns
       THEN /\ data.columns = sheets[1].weight.columns
            /\ weight.columns = sheets[1].weight.columns
            /\ err # "KeyError"
       ELSE /\ pc = "failed"
            /\ err = "KeyError"
            /\ slice_calls = 0
  /\ ~FromFile => err # "KeyError"

\* A panel read with an asset the weight sheet lacks has reached
\* generate_nav with that asset dropped.
C5_Witness ==
  /\ FromFile
  /\ pc = "nav"
  /\ sheets[1].data.columns # sheets[1].weight.columns
  /\ sheets[1].weight.columns \subseteq sheets[1].data.columns
  /\ data.columns = weight.columns

\* A step of load_fee_rates (a call that repeats the stored arguments
\* changes nothing).
FeeRatesStep == fee_args' # fee_args

\* Every asset of cols is in exactly one name list of the stored
\* configuration and has that list's rate in the fee rate vector.
ExactlyOneRate(cols) ==
  \A a \in cols :
    /\ (a \in fee_config[1].high_risk_name_list) # (a \in fee_config[1].low_risk_name_list)
    /\ a \in DOMAIN fee_rate
    /\ fee_rate[a] = IF a \in fee_config[1].high_risk_name_list
                     THEN fee_config[1].high_risk_fee_rate
                     ELSE fee_config[1].low_risk_fee_rate

\* load_fee_rates raises exactly when an asset is in both lists or an
\* asset of cols is in neither; an error leaves the stored configuration as
\* it was, a success stores the arguments.
FeeRatesChecked(cols) ==
  LET h == fee_args'[1].high_risk_name_list
      l == fee_args'[1].low_risk_name_list
  IN  /\ pc' = (IF h \cap l # {} \/ cols \ (h \cup l) # {} THEN "failed" ELSE "configured")
      /\ pc' = "failed" => err' = "ValueError" /\ fee_config' = fee_config
      /\ pc' = "configured" => fee_config' = fee_args'

\* C6 as claimed, with the assets of the price panel.
C6_FeeRatesValidatedAsClaimed ==
  /\ [][FeeRatesStep => FeeRatesChecked(data.columns)]_vars
  /\ [](pc = "nav" => ExactlyOneRate(data.columns))

\* C6, amended: load_fee_rates raises when an asset is in both lists and
\* when an asset of the weight schedule is in neither; on either error the
\* stored configuration is unchanged; after a success every asset of the
\* weight schedule that the price panel holds has exactly one fee rate in
\* generate_nav.
C6_FeeRatesValidated ==
  /\ [][FeeRatesStep => FeeRatesChecked(weight.columns)]_vars
  /\ [](pc = "nav" => ExactlyOneRate(data.columns \cap weight.columns))

\* generate_nav has filled the fee rate vector with the two rates, after a
\* load_fee_rates call that replaced an earlier configuration.
C6_Witness ==
  /\ pc = "nav"
  /\ data.columns = Assets
  /\ weight.columns = Assets
  /\ fee_rate["A"] = Twentieth
  /\ fee_rate["B"] = Tenth
  /\ ExactlyOneRate(data.columns)

(***************************************************************************)
(* Simulation (generate_nav).  Floats are exact rationals here, so the     *)
(* equalities below are those of real arithmetic.                          *)
(***************************************************************************)
\* The dates generate_nav has filled in.
Processed == DOMAIN nav

\* The start date, once it is filled in.
StartDates == { t \in Processed : \A d \in Index(data) : t <= d }

\* The date before t in the price index.
PrevDate(t) == Max({ d \in Index(data) : d < t })

RebalancingDates == { t \in Processed \ StartDates : t \in Index(weight) }

NonRebalancingDates == { t \in Processed \ StartDates : t \notin Index(weight) }

\* sum over assets of shares_{t-1} * (p_t - p_{t-1})
Gain(t) ==
  LET prev == PrevDate(t)
  IN  RSum(data.columns,
           [a \in data.columns |->
              RMul(shares[prev][a], RSub(norm_data[t][a], norm_data[prev][a]))])

\* NAV_{t-1} + sum shares_{t-1} * (p_t - p_{t-1})
NavBeforeAt(t) == RAdd(nav[PrevDate(t)], Gain(t))

\* sum over assets of |shares_{t-1} - shares_t| * feerate * p_t
RederivedFee(t) ==
  RSum(data.columns,
       [a \in data.columns |->
          RMul(RMul(RAbs(RSub(shares[PrevDate(t)][a], shares[t][a])), fee_rate[a]),
               norm_data[t][a])])

\* C7: on every date after the first without an aligned schedule entry the
\* shares are those of the previous date, the fee is 0, the turnover of
\* every asset is 0, and NAV_t - NAV_{t-1} is the sum over assets of
\* shares_{t-1} * (p_t - p_{t-1}).
C7_NavContinuity ==
  \A t \in NonRebalancingDates :
    /\ shares[t] = shares[PrevDate(t)]
    /\ fee[t] = Zero
    /\ \A a \in data.columns : turnover_ratio[t][a] = Zero
    /\ RSub(nav[t], nav[PrevDate(t)]) = Gain(t)

\* A non-rebalancing date on which the prices moved the NAV, after a
\* rebalancing date.
C7_Witness ==
  \E t \in NonRebalancingDates :
    /\ PrevDate(t) \in RebalancingDates
    /\ nav[t] # nav[PrevDate(t)]
    /\ Gain(t) # Zero

\* C8: on every rebalancing date, with x the stored NAV, the stored shares
\* are w_t * x / p_t, the recorded fee is NAV_before - x, and the fee
\* re-derived from the shares of the two dates equals the recorded fee.
C8_FeeSolveConsistent ==
  \A t \in RebalancingDates :
    LET w == RowAt(weight, t)
    IN  /\ shares[t] = [a \in data.columns |->
                          RDiv(RMul(w[a], nav[t]), norm_data[t][a])]
        /\ fee[t] = RSub(NavBeforeAt(t), nav[t])
        /\ RederivedFee(t) = fee[t]

\* A rebalancing date after a price move, with a fee paid.
C8_Witness ==
  \E t \in RebalancingDates :
    /\ Gain(t) # Zero
    /\ RLess(Zero, fee[t])
    /\ RederivedFee(t) = fee[t]

FeeRatesNonNegative == \A a \in DOMAIN fee_rate : RLeq(Zero, fee_rate[a])

PricesPositive ==
  \A d \in DOMAIN norm_data : \A a \in data.columns : RLess(Zero, norm_data[d][a])

\* C9: with fee rates >= 0 and prices > 0, the recorded fee of the first
\* date and of every rebalancing date is >= 0, and on a rebalancing date
\* the NAV after rebalancing does not exceed the NAV before, whatever the
\* target weights.
C9_FeeNonNegative ==
  (FeeRatesNonNegative /\ PricesPositive) =>
    /\ \A t \in StartDates : RLeq(Zero, fee[t])
    /\ \A t \in RebalancingDates :
         /\ RLeq(Zero, fee[t])
         /\ RLeq(nav[t], NavBeforeAt(t))

\* A rebalancing date with a short, leveraged target and a fee paid, after
\* a first date that paid a fee as well.
C9_Witness ==
  /\ FeeRatesNonNegative
  /\ PricesPositive
  /\ \E t \in StartDates : RLess(Zero, fee[t])
  /\ \E t \in RebalancingDates :
       /\ RLess(RowAt(weight, t)["B"], Zero)
       /\ RLess(Zero, fee[t])
       /\ RLess(nav[t], NavBeforeAt(t))

\* The holdings of date t valued at its prices, as shares of the NAV.
HoldingsWeight(t) ==
  [a \in data.columns |-> RDiv(RMul(shares[t][a], norm_data[t][a]), nav[t])]

\* C10 as claimed: on the first date and on every rebalancing date the
\* recorded actual weight is the target weight and shares_t * p_t / NAV_t
\* is the target weight.
C10_RebalanceExactAsClaimed ==
  \A t \in StartDates \cup RebalancingDates :
    /\ actual_weight[t] = RowAt(weight, t)
    /\ HoldingsWeight(t) = RowAt(weight, t)

\* C10, amended: on the first date and on every rebalancing date the
\* recorded actual weight is the target weight, and where NAV_t is not 0
\* shares_t * p_t / NAV_t is the target weight.
C10_RebalanceExact ==
  \A t \in StartDates \cup RebalancingDates :
    /\ actual_weight[t] = RowAt(weight, t)
    /\ nav[t] # Zero => HoldingsWeight(t) = RowAt(weight, t)

\* A rebalancing date with a NAV other than 0 and other than 1, and a
\* target different from the weights held before.
C10_Witness ==
  \E t \in RebalancingDates :
    /\ nav[t] # Zero
    /\ nav[t] # One
    /\ actual_weight[t] # actual_weight[PrevDate(t)]
    /\ HoldingsWeight(t) = RowAt(weight, t)

\* C11 as claimed: a negative or non-finite NAV returned by the solver on a
\* rebalancing date ends the run in an error; it is never stored as NAV_t,
\* so every stored NAV of a rebalancing date is finite and not negative.
C11_InvalidNavIsError ==
  \A t \in RebalancingDates : IsFinite(nav[t]) /\ RLeq(Zero, nav[t])

\* The run is over: generate_nav has returned or an exception has ended it.
Ended == pc \in {"done", "failed"}

\* C12: a rebalancing date whose solve does not converge ends the run in
\* an error, with nothing stored for that date and no later date
\* simulated; every NAV stored on a rebalancing date is a zero of
\* nav_equation, not an approximation; every pass of the loop fails or
\* moves to the next date, the date index stays within the price index,
\* and generate_nav, once its loop has begun, ends.
C12_SolveTerminates ==
  /\ [][(pc = "nav" /\ pc' = "failed") =>
          (/\ err' \in {"RuntimeError", "ValueError"}
           /\ IndexSeq(data)[idx] \notin DOMAIN nav'
           /\ UNCHANGED navVars)]_vars
  /\ [][pc # "failed"]_vars
  /\ [](\A t \in RebalancingDates :
          NavEquation(nav[t], shares[PrevDate(t)], RowAt(weight, t), norm_data[t],
                      fee_rate, NavBeforeAt(t)) = Zero)
  /\ [][pc = "nav" => (pc' = "failed" \/ idx' = idx + 1)]_vars
  /\ [](pc = "nav" => idx \in 1 .. Len(IndexSeq(data)))
  /\ [](pc = "done" => idx = Len(IndexSeq(data)) + 1)
  /\ (pc = "nav") ~> Ended

\* The solve of the second rebalancing date did not converge: the run has
\* failed with the first two dates stored and the third not.
C12_Witness ==
  /\ pc = "failed"
  /\ err = "RuntimeError"
  /\ idx = 3
  /\ Cardinality(DOMAIN nav) = 2
  /\ IndexSeq(data)[idx] \notin DOMAIN nav
  /\ RebalancingDates # {}

(***************************************************************************)
(* Statistics (Single_Asset).                                              *)
(***************************************************************************)
\* The rows reported for asset A, <<>> before backtest has returned.
RowsA == IF "A" \in DOMAIN sa_results THEN sa_results["A"] ELSE <<>>

\* The dates of asset A's series: those with a price.
SeriesDates == { d \in Index(sa_data) : ~IsNaN(RowAt(sa_data, d)["A"]) }

ValueAt(d) == RowAt(sa_data, d)["A"]

\* The dates a row's statistics are taken over: all of them for the whole
\* period; for a year, its dates and the last date before them.
RowDates(r) ==
  IF r.label = WholePeriod THEN SeriesDates
  ELSE LET y == r.label[2]
           before == { d \in SeriesDates : YearOf(d) < y }
       IN  { d \in SeriesDates : YearOf(d) = y }
           \cup (IF before = {} THEN {} ELSE { Max(before) })

\* The series of the row starts positive and is never negative.
PositiveStart(r) ==
  /\ RLess(Zero, ValueAt(Min(RowDates(r))))
  /\ \A d \in RowDates(r) : RLeq(Zero, ValueAt(d))

\* C13: for a series with positive first value and no negative value, mdd
\* is in [0, 1], the start date is at or before the formation date and
\* holds the greatest value up to the formation date, and the value at the
\* formation date is (1 - mdd) times the value at the start date.
C13_DrawdownBound ==
  \A i \in 1 .. Len(RowsA) :
    LET r == RowsA[i]
    IN  PositiveStart(r) =>
          /\ RLeq(Zero, r.mdd.q) /\ RLeq(r.mdd.q, One)
          /\ r.mdd_start \in RowDates(r)
          /\ r.mdd_formation \in RowDates(r)
          /\ r.mdd_start <= r.mdd_formation
          /\ \A d \in RowDates(r) :
               d <= r.mdd_formation => RLeq(ValueAt(d), ValueAt(r.mdd_start))
          /\ ValueAt(r.mdd_formation) = RMul(RSub(One, r.mdd.q), ValueAt(r.mdd_start))

\* A year's row, anchored at the year before, with a drawdown strictly
\* between 0 and 1 that starts after the anchor.
C13_Witness ==
  \E i \in 1 .. Len(RowsA) :
    LET r == RowsA[i]
    IN  /\ r.label # WholePeriod
        /\ PositiveStart(r)
        /\ RLess(Zero, r.mdd.q) /\ RLess(r.mdd.q, One)
        /\ Min(RowDates(r)) < r.mdd_start
        /\ YearOf(Min(RowDates(r))) < r.label[2]

\* The dates after the formation date of row r on which the series is back
\* at or above its value of the start date.
RecoveredDates(r) ==
  { d \in SeriesDates :
      d > r.mdd_formation /\ RLeq(ValueAt(r.mdd_start), ValueAt(d)) }

\* C14 as claimed: the reported recovery date is the first date strictly
\* after the formation date with a value at least that of the start date,
\* and the sentinel is reported when there is no such date.
C14_RecoveryAfterFormation ==
  \A i \in 1 .. Len(RowsA) :
    LET r == RowsA[i]
    IN  r.mdd_recovery = (IF RecoveredDates(r) = {} THEN NotYetRecovered
                          ELSE Recovered(Min(RecoveredDates(r))))

\* The series of asset A never falls.
Monotone == \A d \in SeriesDates, e \in SeriesDates : d < e => RLeq(ValueAt(d), ValueAt(e))

\* backtest("A") has raised an exception out of backtest_series.
BacktestSeriesRaised == sa_pc = "failed" /\ err # "ValueError"

\* (annualized_return - rf) / mdd of row r
ExcessOverMdd(r) == TDiv(TSub(r.annualized_return, Num(rf)), r.mdd)

\* Calmar of every row: not-a-number for mdd = 0, the ratio for mdd > 0.
CalmarCells ==
  \A i \in 1 .. Len(RowsA) :
    LET r == RowsA[i]
    IN  /\ r.mdd.q = Zero => r.calmar = Num(NaN)
        /\ RLess(Zero, r.mdd.q) => r.calmar = ExcessOverMdd(r)

\* C15 as claimed: no series that never falls makes backtest_series raise,
\* and Calmar is not-a-number for mdd = 0 and the ratio for mdd > 0.
C15_CalmarUndefinedAsClaimed ==
  /\ (SeriesDates # {} /\ Monotone) => ~BacktestSeriesRaised
  /\ CalmarCells

\* C15, amended: a series of at least two observations with a positive
\* first value that never falls does not make backtest_series raise, and
\* Calmar is not-a-number for mdd = 0 and the ratio for mdd > 0; a series
\* of one observation makes the whole-period call raise ZeroDivisionError.
C15_CalmarUndefined ==
  /\ (Cardinality(SeriesDates) >= 2 /\ Monotone /\ RLess(Zero, ValueAt(Min(SeriesDates))))
       => ~BacktestSeriesRaised
  /\ CalmarCells
  /\ (Cardinality(SeriesDates) = 1 /\ sa_pc \in {"done", "failed"} /\ err # "ValueError")
       => (sa_pc = "failed" /\ err = "ZeroDivisionError")

\* A rising series of three observations in two years: the row of the
\* whole period and a year's row, each with mdd = 0 and Calmar not-a-number.
C15_Witness ==
  /\ sa_pc = "done"
  /\ Cardinality(SeriesDates) >= 3
  /\ Monotone
  /\ RLess(ValueAt(Min(SeriesDates)), ValueAt(Max(SeriesDates)))
  /\ Len(RowsA) >= 2
  /\ \A i \in 1 .. Len(RowsA) : RowsA[i].mdd.q = Zero /\ RowsA[i].calmar = Num(NaN)

\* NAV_last / NAV_first - 1 over the dates of row r
RowReturn(r) ==
  RSub(RDiv(ValueAt(Max(RowDates(r))), ValueAt(Min(RowDates(r)))), One)

\* (1 + h) ** (ann / (n - 1)) - 1 as a statistic
Compounded(h, n) ==
  IF IsNaN(h) THEN Num(NaN)
  ELSE [op |-> "sub",
        x |-> [op |-> "pow", base |-> RAdd(h, One), num |-> ann, den |-> n - 1],
        y |-> Num(One)]

\* C16: the 'annualized return' of every by-year row is the holding-period
\* return of the year's anchored slice, not annualized; that of the
\* whole-period row is (1 + HPR) ** (ann / (n - 1)) - 1 over the n
\* observations of the series.
C16_ByYearNotAnnualized ==
  \A i \in 1 .. Len(RowsA) :
    LET r == RowsA[i]
    IN  IF r.label = WholePeriod
        THEN r.annualized_return = Compounded(RowReturn(r), Cardinality(SeriesDates))
        ELSE /\ r.annualized_return = Num(RowReturn(r))
             /\ r.annualized_return = r.holding_period_return

\* Three observations or more, a year's row with a gain or a loss over an
\* anchored slice, next to the compounded row of the whole period.
C16_Witness ==
  /\ sa_pc = "done"
  /\ Cardinality(SeriesDates) >= 3
  /\ \E i \in 2 .. Len(RowsA) :
       /\ Cardinality(RowDates(RowsA[i])) >= 2
       /\ \E d \in RowDates(RowsA[i]) : YearOf(d) < RowsA[i].label[2]
       /\ IsFinite(RowReturn(RowsA[i]))
       /\ RowReturn(RowsA[i]) # Zero
  /\ RowsA[1].annualized_return.op = "sub"

(***************************************************************************)
(* Summary of the portfolio backtest.                                      *)
(***************************************************************************)
\* The dates of the simulation a row of the summary stands for.
SummaryDates(r) ==
  IF r.label = WholePeriod THEN Index(data)
  ELSE { d \in Index(data) : YearOf(d) = r.label[2] }

\* C17: every row of the summary, the whole period's and each year's,
\* holds the total of every asset's turnover over its dates, a portfolio
\* turnover equal to the sum of these totals, and the total of the fee
\* over its dates.
C17_TurnoverAndFeeTotals ==
  pc = "backtested" =>
    \A i \in 1 .. Len(summary) :
      LET r == summary[i]
          D == SummaryDates(r)
      IN  /\ \A a \in data.columns :
                r.turnover[a] = RSum(D, [d \in D |-> turnover_ratio[d][a]])
          /\ r.portfolio_turnover = RSum(data.columns, r.turnover)
          /\ "fee" \in DOMAIN r
          /\ r.fee = RSum(D, fee)

\* C18 as a property of the summary: its rows are the whole period's,
\* then one row for every reported year of the NAV series in ascending
\* order; a first calendar year with a single observation has no row.
C18_NoRowForSkippedYear ==
  pc = "backtested" =>
    LET reported == Ascending(ReportedYears(NavSeries))
    IN  /\ Len(summary) = 1 + Len(reported)
        /\ summary[1].label = WholePeriod
        /\ \A j \in 1 .. Len(reported) :
             summary[1 + j].label = Year(Years(NavSeries)[reported[j]])
        /\ LET first == Min({ YearOf(d) : d \in Index(data) })
           IN  Cardinality({ d \in Index(data) : YearOf(d) = first }) = 1
                 => \A i \in 1 .. Len(summary) : summary[i].label # Year(first)

(***************************************************************************)
(* Zero fees and the first date.                                           *)
(***************************************************************************)
ZeroFeeRates == \A a \in DOMAIN fee_rate : fee_rate[a] = Zero

\* The prices are the same on every date of the sliced panel.
FlatPrices == \A d \in Index(data), e \in Index(data) : RowAt(data, d) = RowAt(data, e)

\* The only schedule entry of the simulation is that of its first date.
SingleRebalanceAtStart == Index(weight) \cap Index(data) = { Min(Index(data)) }

\* C19: with both fee rates 0 the fee is 0 on every date and the NAV of
\* every rebalancing date is its carried value NAV_{t-1} + gain; with flat
\* prices and the first date's weights w as only rebalance, NAV is exactly
\* 1 on every date and the turnover is |w| on the first date, 0 afterwards.
C19_ZeroFee ==
  (Processed # {} /\ ZeroFeeRates) =>
    /\ \A t \in Processed : fee[t] = Zero
    /\ \A t \in RebalancingDates : nav[t] = NavBeforeAt(t)
    /\ (FlatPrices /\ SingleRebalanceAtStart) =>
         \A t \in Processed :
           /\ nav[t] = One
           /\ \A a \in data.columns :
                turnover_ratio[t][a] =
                  IF t \in StartDates THEN RAbs(RowAt(weight, t)[a]) ELSE Zero

\* Zero fee rates, a rebalance after a price move that changed the NAV.
C19_Witness ==
  /\ pc = "done"
  /\ ZeroFeeRates
  /\ \E t \in RebalancingDates :
       /\ nav[t] = NavBeforeAt(t)
       /\ nav[t] # nav[PrevDate(t)]
       /\ shares[t] # shares[PrevDate(t)]

\* The scenario of C19: three dates of flat prices, the only rebalance on
\* the first date to weights 0.6 and 0.4, zero fee rates.
C19_ScenarioReached ==
  /\ pc = "done"
  /\ ZeroFeeRates
  /\ FlatPrices
  /\ Cardinality(Index(data)) = MaxNavDate
  /\ Index(weight) = { 1 }
  /\ RowAt(weight, 1) = ScenarioWeightRow
  /\ \A t \in Processed : nav[t] = One
  /\ turnover_ratio[1] = ScenarioWeightRow

\* C20: on the first date the NAV is exactly 1 whatever the fee rates, the
\* shares are w_0 / p_0, the fee is the sum over the assets of
\* |shares_0| * feerate * p_0, and the turnover is |w_0|.
C20_InitialDate ==
  \A t \in StartDates :
    LET w == RowAt(weight, t)
        p == norm_data[t]
    IN  /\ nav[t] = One
        /\ \A a \in data.columns :
             /\ shares[t][a] = RDiv(w[a], p[a])
             /\ turnover_ratio[t][a] = RAbs(w[a])
        /\ fee[t] = RSum(data.columns,
                         [a \in data.columns |->
                            RMul(RMul(RAbs(shares[t][a]), fee_rate[a]), p[a])])

\* A first date with a short position and a fee that is not 0.
C20_Witness ==
  \E t \in StartDates :
    /\ RLess(Zero, fee[t])
    /\ nav[t] = One
    /\ \E a \in data.columns : RLess(RowAt(weight, t)[a], Zero)

(***************************************************************************)
(* Second group of properties: slice endpoints, turnover, by-year slices,  *)
(* residual, compounding of years, turnover totals.                        *)
(***************************************************************************)
\* C21: after a successful slice the price panel starts on the first date
\* of the aligned schedule, and remains so through the simulation; it ends
\* on the last price date within the bounds, also when that is later than
\* the last aligned schedule date.
C21_SliceEndpoints ==
  /\ [](Sliced => IndexSeq(data)[1] = IndexSeq(weight)[1])
  /\ [][SliceSucceeds =>
          /\ Min(Index(data')) = Min(Index(weight'))
          /\ Max(Index(data')) = Max(PriceDates)]_vars

\* A first slice has cut price dates within the bounds off the front of
\* the panel, and the panel goes on after the last aligned schedule date.
C21_Witness ==
  /\ pc = "sliced"
  /\ slice_calls = 1
  /\ IndexSeq(data)[1] = IndexSeq(weight)[1]
  /\ Max(Index(data)) > Max(Index(weight))
  /\ \E d \in Index(sheets[1].data) :
       InBounds(d, start_date, end_date) /\ d < Min(Index(data))

\* shares_t * p_t / NAV_t for asset a
HoldingsShare(t, a) == RDiv(RMul(shares[t][a], norm_data[t][a]), nav[t])

\* shares_{t-1} * p_t / nav_before for asset a: the weight drifted to t's prices
DriftedShare(t, a) ==
  RDiv(RMul(shares[PrevDate(t)][a], norm_data[t][a]), NavBeforeAt(t))

\* C22: on every rebalancing date t after the first the turnover of every
\* asset is |w_t - actual_weight_{t-1}|, the weight recorded on the row of
\* the previous date, which is shares_{t-1} * p_{t-1} / NAV_{t-1}.
C22_TurnoverAgainstPreviousRow ==
  \A t \in RebalancingDates : \A a \in data.columns :
    /\ turnover_ratio[t][a] = RAbs(RSub(RowAt(weight, t)[a], actual_weight[PrevDate(t)][a]))
    /\ actual_weight[PrevDate(t)][a] = HoldingsShare(PrevDate(t), a)

\* A rebalance after a price move: the drifted weight differs from the
\* previous row's weight, and the turnover is not the distance to it.
C22_Witness ==
  \E t \in RebalancingDates : \E a \in data.columns :
    /\ IsFinite(DriftedShare(t, a))
    /\ DriftedShare(t, a) # actual_weight[PrevDate(t)][a]
    /\ turnover_ratio[t][a] # RAbs(RSub(RowAt(weight, t)[a], DriftedShare(t, a)))
    /\ turnover_ratio[t][a] = RAbs(RSub(RowAt(weight, t)[a], actual_weight[PrevDate(t)][a]))
    /\ PrevDate(t) \in NonRebalancingDates

\* The observations of year y and those of the years before it.
InYear(y) == { d \in SeriesDates : YearOf(d) = y }

BeforeYear(y) == { d \in SeriesDates : YearOf(d) < y }

\* The date the statistics of year y start from: the last observation
\* before the year, or the year's first observation if there is none.
AnchorDate(y) == IF BeforeYear(y) = {} THEN Min(InYear(y)) ELSE Max(BeforeYear(y))

\* 1 - v(e) / v(d): the fall from date d to date e
Fall(d, e) == RSub(One, RDiv(ValueAt(e), ValueAt(d)))

\* The years that get a row: every year with an observation, but for a
\* first year of a single observation.
YearsWithRow ==
  { y \in { YearOf(d) : d \in SeriesDates } :
      BeforeYear(y) # {} \/ Cardinality(InYear(y)) >= 2 }

\* C23: the by-year rows are those of the calendar years of the series in
\* ascending order; the statistics of a year after the first start from
\* the last observation of the year before, so its return is
\* v(last of year) / v(anchor) - 1 and its drawdown is the greatest fall
\* between two dates from the anchor to the year's end; every row's slice
\* has at least two observations.
C23_ByYearAnchored ==
  sa_pc = "done" /\ "A" \in DOMAIN sa_results =>
    /\ { RowsA[i].label : i \in 2 .. Len(RowsA) } = { Year(y) : y \in YearsWithRow }
    /\ \A i \in 2 .. Len(RowsA) - 1 : RowsA[i].label[2] < RowsA[i + 1].label[2]
    /\ \A i \in 2 .. Len(RowsA) :
         LET r == RowsA[i]
             y == r.label[2]
             D == { d \in SeriesDates : AnchorDate(y) <= d /\ YearOf(d) <= y }
         IN  /\ Cardinality(D) >= 2
             /\ r.holding_period_return =
                  Num(RSub(RDiv(ValueAt(Max(InYear(y))), ValueAt(AnchorDate(y))), One))
             /\ (\A d \in D : RLess(Zero, ValueAt(d))) =>
                  /\ r.mdd_start \in D /\ r.mdd_formation \in D
                  /\ r.mdd_start <= r.mdd_formation
                  /\ r.mdd.q = Fall(r.mdd_start, r.mdd_formation)
                  /\ \A d \in D, e \in D : d <= e => RLeq(Fall(d, e), r.mdd.q)

\* A year after the first whose drawdown starts at the close of the year
\* before and whose return is measured from it.
C23_Witness ==
  /\ sa_pc = "done"
  /\ \E i \in 2 .. Len(RowsA) :
       LET r == RowsA[i]
           y == r.label[2]
       IN  /\ BeforeYear(y) # {}
           /\ \A d \in SeriesDates : RLess(Zero, ValueAt(d))
           /\ r.mdd_start = AnchorDate(y)
           /\ RLess(Zero, r.mdd.q)
           /\ ValueAt(Min(InYear(y))) # ValueAt(AnchorDate(y))
           /\ Cardinality(InYear(y)) = 1

\* C24: when several schedule dates that are no price dates share the
\* preceding price date d and d is no schedule date, a successful slice
\* leaves at d the row of the latest of them; the aligned schedule has no
\* more rows than the schedule slice was called on.
C24_LatestMovedRowWins ==
  [][SliceSucceeds =>
       /\ \A w \in ScheduleDates :
            (w \notin PriceDates /\ Preceding(w) \notin ScheduleDates) =>
              \A v \in MovedWith(w) :
                (\A u \in MovedWith(w) : u <= v) =>
                  RowAt(weight', Preceding(w)) = RowAt(weight, v)
       /\ Len(weight'.recs) <= Len(weight.recs)]_vars

\* Two schedule dates with different rows have been moved to one price
\* date: it holds the later one's row and the aligned schedule is shorter
\* than the schedule of the workbook.
C24_Witness ==
  /\ pc = "sliced"
  /\ slice_calls = 1
  /\ Len(weight.recs) < Len(sheets[1].weight.recs)
  /\ \E d \in Index(weight) : \E v, w \in Index(sheets[1].weight) :
       /\ d \notin Index(sheets[1].weight)
       /\ d < v /\ v < w
       /\ \A e \in Index(sheets[1].data) : ~(d < e /\ e <= w)
       /\ InBounds(d, start_date, end_date)
       /\ w <= Max(Index(data))
       /\ RowAt(sheets[1].weight, v) # RowAt(sheets[1].weight, w)
       /\ RowAt(weight, d) = RowAt(sheets[1].weight, w)
       /\ RowAt(weight, d) # RowAt(sheets[1].weight, v)

\* NAV_t - sum over assets of shares_t * p_t
Residual(t) ==
  RSub(nav[t],
       RSum(data.columns, [a \in data.columns |-> RMul(shares[t][a], norm_data[t][a])]))

\* The sum of the target weights of the aligned schedule's row at t.
WeightSum(t) == RSum(data.columns, RowAt(weight, t))

FullyInvested == \A d \in Index(weight) : WeightSum(d) = One

\* The residual is carried over a date without rebalancing and is
\* (1 - sum of w_t) * NAV_t on the first date and after a rebalance; with
\* every target row summing to 1 it is 0 on every date.
ResidualRule ==
  /\ \A t \in NonRebalancingDates : Residual(t) = Residual(PrevDate(t))
  /\ \A t \in StartDates \cup RebalancingDates :
       Residual(t) = RMul(RSub(One, WeightSum(t)), nav[t])
  /\ FullyInvested => \A t \in Processed : Residual(t) = Zero

\* C25 as claimed: the residual rule, and with every target row summing
\* to 1 the actual weights sum to 1 on every date.
C25_ResidualAsClaimed ==
  /\ ResidualRule
  /\ FullyInvested => \A t \in Processed : RSum(data.columns, actual_weight[t]) = One

\* C25, amended: the residual rule, and with every target row summing to 1
\* the actual weights sum to 1 on every date whose NAV is not 0, and on
\* every date with a target row.
C25_Residual ==
  /\ ResidualRule
  /\ FullyInvested =>
       \A t \in Processed :
         (nav[t] # Zero \/ t \in Index(weight)) => RSum(data.columns, actual_weight[t]) = One

\* A run with a short position and target rows summing to 1, a price move
\* over a date without rebalancing and a rebalance with fee after it.
C25_Witness ==
  /\ pc = "done"
  /\ FullyInvested
  /\ \E t \in NonRebalancingDates :
       /\ nav[t] # nav[PrevDate(t)]
       /\ \E a \in data.columns : RLess(shares[t][a], Zero)
       /\ actual_weight[t] # actual_weight[PrevDate(t)]
  /\ \E t \in RebalancingDates : RLess(Zero, fee[t])
  /\ \A t \in Processed : Residual(t) = Zero

\* The product of 1 + holding-period return over the rows i .. Len(RowsA).
RECURSIVE GrowthFrom(_)
GrowthFrom(i) ==
  IF i > Len(RowsA) THEN One
  ELSE RMul(RAdd(One, RowsA[i].holding_period_return.q), GrowthFrom(i + 1))

\* C26: for a series of positive values the product of 1 + holding-period
\* return over the by-year rows is 1 + the holding-period return of the
\* whole period, also when a first year of one observation has no row.
C26_YearsCompound ==
  (sa_pc = "done" /\ "A" \in DOMAIN sa_results
     /\ \A d \in SeriesDates : RLess(Zero, ValueAt(d))) =>
    GrowthFrom(2) = RAdd(One, RowsA[1].holding_period_return.q)

\* Four observations of different positive values, the first alone in its
\* year and without a row, two year rows with a return that is not 0.
C26_Witness ==
  /\ sa_pc = "done"
  /\ Cardinality(SeriesDates) = 4
  /\ Cardinality(InYear(YearOf(Min(SeriesDates)))) = 1
  /\ \A d \in SeriesDates : RLess(Zero, ValueAt(d))
  /\ Len(RowsA) = 3
  /\ \A i \in 1 .. 3 : RowsA[i].holding_period_return.q # Zero
  /\ RowsA[2].holding_period_return # RowsA[3].holding_period_return

\* The positions of the year rows of the summary.
YearRows == { i \in 1 .. Len(summary) : summary[i].label # WholePeriod }

\* For every asset the turnover totals of the year rows add up to the
\* total of the whole period.
AssetYearTotalsAddUp ==
  \A a \in data.columns :
    RSum(YearRows, [i \in YearRows |-> summary[i].turnover[a]]) = summary[1].turnover[a]

\* C27: after Portfolio.backtest, for every asset the turnover totals of
\* the year rows add up to the asset's total of the whole period, the
\* portfolio turnover of the year rows adds up to that of the whole
\* period, and in every year row it is the sum of the assets' totals.
C27_YearTotalsAddUp ==
  pc = "backtested" =>
    /\ AssetYearTotalsAddUp
    /\ RSum(YearRows, [i \in YearRows |-> summary[i].portfolio_turnover])
         = summary[1].portfolio_turnover
    /\ \A i \in YearRows :
         summary[i].portfolio_turnover = RSum(data.columns, summary[i].turnover)

\* The per-asset part alone.
C27_PerAssetPart == pc = "backtested" => AssetYearTotalsAddUp

====
